---- MODULE Spec2Model ----
(***************************************************************************)
(* Order-orchestration pipeline of solana-order-engine: the BullMQ worker  *)
(* processor (src/src/worker.ts), the DEX router (src/src/router/          *)
(* dexRouter.ts), the persistence helpers (src/src/server.ts, db section), *)
(* and the Redis pub/sub bridge to websocket subscribers (wsManager,       *)
(* src/unnamed/part_001).                                                  *)
(***************************************************************************)
EXTENDS Integers, Sequences, FiniteSets, TLC

\* ------------------------------------------------------------------------
\* Universe of the model
\* ------------------------------------------------------------------------
Orders == {"o1"}
Jobs == {"j1"}
Conns == {"c1"}

Undefined == "undefined"
Null == "null"

\* token_in values: native SOL, the wrapped-SOL mint, another mint (the test
\* payloads use 'A'), or no token_in at all
WSOL_MINT == "So11111111111111111111111111111111111111112"
OtherMint == "A"
TokenIns == {"SOL", WSOL_MINT, OtherMint, Undefined}

\* amounts a job of the pipeline carries, and amounts handed to the router
\* orders and connections of the registry taken on its own
RegOrders == {"o1", "o2"}
RegConns == {"c1", "c2"}

JobAmounts == {1000000}
RouterAmounts == {0, 1, 100, 101, 9999, 10000, 10001, 215850, 1000000, 123456789}

\* output amounts a venue may quote (same unit)
QuoteVals == {100, 105}

\* bounds of the model: messages a client reads before it closes, messages
\* Redis has pushed to the gateway that the gateway has not handled yet
MaxReads == 3
MaxInFlight == 1
\* stalls after which the queue gives a job up
MaxStalls == 1
\* registry on its own: SUBSCRIBE/UNSUBSCRIBE commands issued in all, events
\* published by the other process
MaxCmds == 3
MaxPublishes == 2
\* gateway session: messages a client sends on one connection
MaxMsgs == 2

\* program constants
QueueAttempts == 3
UpdateRetryAttempts == 3
RoutingRetryAttempts == 3
InsertRetryAttempts == 4
FeeMul == 9949
FeeDiv == 10000

\* width of one word of the arbitrary-precision integers (BN)
LimbBase == 2^15

\* ------------------------------------------------------------------------
\* BN arithmetic (bn.js): little-endian word sequences, exact
\* ------------------------------------------------------------------------
RECURSIVE ToLimbs(_)
ToLimbs(n) ==
  IF n < LimbBase THEN <<n>>
  ELSE <<n % LimbBase>> \o ToLimbs(n \div LimbBase)

RECURSIVE FromLimbs(_)
FromLimbs(ws) ==
  IF ws = <<>> THEN 0
  ELSE Head(ws) + LimbBase * FromLimbs(Tail(ws))

RECURSIVE MulWord(_, _, _)
MulWord(ws, m, carry) ==
  IF ws = <<>> THEN (IF carry = 0 THEN <<>> ELSE ToLimbs(carry))
  ELSE LET t == Head(ws) * m + carry
       IN <<t % LimbBase>> \o MulWord(Tail(ws), m, t \div LimbBase)

RECURSIVE Reverse(_)
Reverse(s) == IF s = <<>> THEN <<>> ELSE Reverse(Tail(s)) \o <<Head(s)>>

\* long division by one word, most significant word first; quotient most
\* significant word first (bn.js divn: truncating division)
RECURSIVE DivWordMS(_, _, _)
DivWordMS(ms, d, rem) ==
  IF ms = <<>> THEN <<>>
  ELSE LET t == rem * LimbBase + Head(ms)
       IN <<t \div d>> \o DivWordMS(Tail(ms), d, t % d)

BNMul(ws, m) == MulWord(ws, m, 0)
BNDiv(ws, d) == Reverse(DivWordMS(Reverse(ws), d, 0))

\* amountInBn.mul(new BN(9949)).div(new BN(10000))
SyntheticOutDivFirst(amountIn) ==
  FromLimbs(BNMul(BNDiv(ToLimbs(amountIn), FeeDiv), FeeMul))
SyntheticOut(amountIn) == FromLimbs(BNDiv(BNMul(ToLimbs(amountIn), FeeMul), FeeDiv))

\* ------------------------------------------------------------------------
\* State
\* ------------------------------------------------------------------------
VARIABLES
  useMock,        \* process.env.USE_MOCK === 'true'
  meteoraPool,    \* process.env.POOL_ADDRESS is set
  raydiumPool,    \* process.env.POOL_ID is set
  db,             \* "order-engine".orders, one row per order
  jobData,        \* job.data of every job of queue 'orders'
  jobState,       \* BullMQ state of the job
  attemptsMade,   \* job.attemptsMade
  stalls,         \* times the queue found the job stalled and put it back
  pc,             \* position of the processor invocation working on the job
  tryIdx,         \* loop index i of retry() in the persistence call in progress
  quotes,         \* getBestQuote: const quotes: Quote[]
  venueCalls,     \* getBestQuote: venue quote requests issued, with their state
  quote,          \* worker: const quote
  res,            \* worker: const res (executeSwap result)
  err,            \* the error being thrown / caught
  subscribers,    \* wsManager: Map<orderId, Set<ws>>
  conns,          \* websocket connections: readyState and authedOrderId
  subCmds,        \* SUBSCRIBE/UNSUBSCRIBE commands sent on `sub`, not yet processed
  channels,       \* channels the `sub` connection is subscribed to at the Redis server
  subLog,         \* SUBSCRIBE/UNSUBSCRIBE commands of `sub` the Redis server has processed
  sendThrows,     \* connections whose socket makes ws.send throw
  inbox,          \* messages Redis pushed to `sub`, not yet handled by on('message')
  delivered,      \* per connection: payloads handed to ws.send, in order
  published,      \* per job: events accepted by pub.publish in the current attempt
  failedWrites,   \* per job: status=failed updates applied in the current attempt
  statusWrites,   \* per job: statuses updateOrderStatus stored in the current attempt
  execCalls,      \* per job: outcomes of executeSwap in the current attempt
  token_in,       \* per job: job.data.token_in
  wsolCalls,      \* per job: wrap and cleanup calls of executeSwap in the current attempt
  swapped,        \* per job: an executeSwap call for its order has returned, in any attempt
  http,           \* per admission request: body, position in the handler, retry index, reply
  tasks,          \* gateway: handlers waiting at await import('./websocket/wsManager.js'), in order
  wsLog           \* per connection: what the client presented, with the replies sent to each

vars == <<useMock, meteoraPool, raydiumPool, db, jobData, jobState, attemptsMade,
          stalls, pc, tryIdx, quotes, venueCalls, quote, res, err, subscribers, conns,
          subCmds, channels, subLog, sendThrows, inbox, delivered, published, failedWrites,
          statusWrites, execCalls, token_in, wsolCalls, swapped, http, tasks, wsLog>>

\* what no step of the worker, the queue or the gateway changes
envVars == <<useMock, meteoraPool, raydiumPool, token_in>>
queueVars == <<jobData, jobState, attemptsMade, stalls>>
wsVars == <<subscribers, conns, subCmds, channels, subLog, sendThrows, tasks, wsLog>>

\* a nullable number: <<>> is null/undefined, <<n>> is n
NoNum == <<>>
Num(n) == <<n>>

\* ------------------------------------------------------------------------
\* Persistence (db section of src/src/server.ts)
\* ------------------------------------------------------------------------
EmptyObj == [k \in {} |-> Null]

\* jsonb a || b : top-level keys, right operand wins
JsonMerge(a, b) ==
  [k \in (DOMAIN a) \cup (DOMAIN b) |-> IF k \in DOMAIN b THEN b[k] ELSE a[k]]

\* the row insertOrder creates: status 'pending', column defaults elsewhere
NewRow ==
  [status |-> "pending", attempts |-> 0, error |-> Null, tx_hash |-> Null,
   executed_price |-> NoNum, routing_null |-> TRUE, routing_info |-> EmptyObj]

\* opts = {} defaults of updateOrderStatus
NoOpts ==
  [attemptsDelta |-> 0, error |-> Null, txHash |-> Null,
   executedPrice |-> NoNum, routing |-> EmptyObj]

\* an UPDATE that keeps the stored error when $4 is null
UpdateOrderStatusRowKeepsError(row, status, opts) ==
  [status |-> status,
   attempts |-> row.attempts + opts.attemptsDelta,
   error |-> IF opts.error = Null THEN row.error ELSE opts.error,
   tx_hash |-> opts.txHash,
   executed_price |-> opts.executedPrice,
   routing_null |-> FALSE,
   routing_info |-> JsonMerge(IF row.routing_null THEN EmptyObj ELSE row.routing_info,
                              opts.routing)]

\* an UPDATE that assigns $7 to routing_info instead of merging it
UpdateOrderStatusRowOverwrites(row, status, opts) ==
  [status |-> status,
   attempts |-> row.attempts + opts.attemptsDelta,
   error |-> opts.error,
   tx_hash |-> opts.txHash,
   executed_price |-> opts.executedPrice,
   routing_null |-> FALSE,
   routing_info |-> opts.routing]

\* the UPDATE statement of updateOrderStatus applied to one row
UpdateOrderStatusRow(row, status, opts) ==
  [status |-> status,
   attempts |-> row.attempts + opts.attemptsDelta,
   error |-> opts.error,
   tx_hash |-> opts.txHash,
   executed_price |-> opts.executedPrice,
   routing_null |-> FALSE,
   routing_info |-> JsonMerge(IF row.routing_null THEN EmptyObj ELSE row.routing_info,
                              opts.routing)]

\* the UPDATE statement of setRoutingInfo applied to one row
SetRoutingInfoRow(row, routing) ==
  [row EXCEPT !.routing_null = FALSE, !.routing_info = routing]

\* WHERE id = $1 : a statement for an id with no row changes nothing
UpdateStmt(status, opts) ==
  [kind |-> "updateOrderStatus", status |-> status, opts |-> opts]
RoutingStmt(routing) == [kind |-> "setRoutingInfo", routing |-> routing]

\* one statement applied to the row it addresses
ApplyStmt(row, stmt) ==
  IF stmt.kind = "updateOrderStatus"
  THEN UpdateOrderStatusRow(row, stmt.status, stmt.opts)
  ELSE SetRoutingInfoRow(row, stmt.routing)

ApplyToDb(d, id, stmt) ==
  IF id \in DOMAIN d THEN [d EXCEPT ![id] = ApplyStmt(d[id], stmt)] ELSE d

\* ------------------------------------------------------------------------
\* Router (src/src/router/dexRouter.ts)
\* ------------------------------------------------------------------------
MockQuote(amountIn) ==
  [dex |-> "mock", out |-> SyntheticOut(amountIn), simulated |-> TRUE]

VenueQuote(dex, out) == [dex |-> dex, out |-> out, simulated |-> FALSE]

\* comparator of quotes.sort: highest outAmountBn first, 0 on equal amounts
CompareQuotesTieLast(a, b) == IF a.out > b.out THEN -1 ELSE 1
CompareQuotes(a, b) ==
  IF a.out = b.out THEN 0 ELSE (IF a.out > b.out THEN -1 ELSE 1)

\* Array.prototype.sort is stable: an element goes behind the elements it does
\* not have to precede
RECURSIVE InsertQuote(_, _)
InsertQuote(s, q) ==
  IF s = <<>> THEN <<q>>
  ELSE IF CompareQuotes(Head(s), q) <= 0
       THEN <<Head(s)>> \o InsertQuote(Tail(s), q)
       ELSE <<q>> \o s

RECURSIVE SortQuotes(_)
SortQuotes(qs) ==
  IF qs = <<>> THEN <<>>
  ELSE InsertQuote(SortQuotes(SubSeq(qs, 1, Len(qs) - 1)), qs[Len(qs)])

\* ------------------------------------------------------------------------
\* wsManager registry (src/unnamed/part_001)
\* ------------------------------------------------------------------------
Channel(orderId) == <<"order", orderId>>

\* subscribeSocket(orderId, ws): new registry, commands sent to Redis
SubscribeRegistry(subs, orderId, ws) ==
  IF orderId \in DOMAIN subs
  THEN [subs EXCEPT ![orderId] = @ \cup {ws}]
  ELSE [o \in (DOMAIN subs) \cup {orderId} |->
          IF o = orderId THEN {ws} ELSE subs[o]]

SubscribeCmds(subs, orderId) ==
  IF orderId \in DOMAIN subs THEN <<>>
  ELSE << <<"subscribe", Channel(orderId)>> >>

\* unsubscribeSocket that keeps the emptied set in the map
UnsubscribeRegistryKeepsEntry(subs, orderId, ws) ==
  IF orderId \notin DOMAIN subs THEN subs
  ELSE [subs EXCEPT ![orderId] = @ \ {ws}]

\* unsubscribeSocket(orderId, ws)
UnsubscribeRegistry(subs, orderId, ws) ==
  IF orderId \notin DOMAIN subs THEN subs
  ELSE IF subs[orderId] \ {ws} = {}
       THEN [o \in (DOMAIN subs) \ {orderId} |-> subs[o]]
       ELSE [subs EXCEPT ![orderId] = @ \ {ws}]

\* unsubscribeSocket that leaves the Redis subscription in place
UnsubscribeCmdsNone(subs, orderId, ws) == <<>>

UnsubscribeCmds(subs, orderId, ws) ==
  IF orderId \in DOMAIN subs /\ subs[orderId] \ {ws} = {}
  THEN << <<"unsubscribe", Channel(orderId)>> >>
  ELSE <<>>

\* ------------------------------------------------------------------------
\* Initial state: the gateway and the worker have started, Intake has
\* inserted every order (status pending) and enqueued one job per order; the
\* job payload is whatever the queue holds (job.data as any)
\* ------------------------------------------------------------------------
Payloads ==
  { [orderId |-> o, amount_in |-> a] :
      o \in Orders \cup {Undefined},
      a \in {Num(n) : n \in JobAmounts} \cup {NoNum} }

\* POST /api/orders/execute: the fields of the body the handler looks at
Bodies ==
  [token_in : {OtherMint, Undefined}, token_out : {"B", Undefined},
   amount_in : {Num(n) : n \in JobAmounts} \cup {NoNum}]

\* a request that was answered with the order id: the row is inserted and the
\* job enqueued
Admitted ==
  [body |-> [token_in |-> OtherMint, token_out |-> "B",
             amount_in |-> Num(1000000)],
   pc |-> "done", tryIdx |-> 0, reply |-> 200]

NoQuote == [dex |-> Null, out |-> 0, simulated |-> FALSE]
NoRes == [txId |-> Null, executedOut |-> NoNum, dex |-> Null, simulated |-> FALSE]

InitWith(tokens) ==
  /\ token_in \in [Jobs -> tokens]
  /\ useMock \in BOOLEAN
  /\ meteoraPool \in BOOLEAN
  /\ raydiumPool \in BOOLEAN
  /\ db = [o \in Orders |-> NewRow]
  /\ jobData \in [Jobs -> Payloads]
  /\ jobState = [j \in Jobs |-> "waiting"]
  /\ attemptsMade = [j \in Jobs |-> 0]
  /\ stalls = [j \in Jobs |-> 0]
  /\ pc = [j \in Jobs |-> "idle"]
  /\ tryIdx = [j \in Jobs |-> 0]
  /\ quotes = [j \in Jobs |-> <<>>]
  /\ venueCalls = [j \in Jobs |-> <<>>]
  /\ quote = [j \in Jobs |-> NoQuote]
  /\ res = [j \in Jobs |-> NoRes]
  /\ err = [j \in Jobs |-> Null]
  /\ subscribers = [o \in {} |-> {}]
  /\ conns = [c \in Conns |-> [readyState |-> "NONE", authedOrderId |-> Null]]
  /\ subCmds = <<>>
  /\ channels = {}
  /\ subLog = <<>>
  /\ sendThrows = {}
  /\ inbox = <<>>
  /\ delivered = [c \in Conns |-> <<>>]
  /\ published = [j \in Jobs |-> <<>>]
  /\ failedWrites = [j \in Jobs |-> <<>>]
  /\ statusWrites = [j \in Jobs |-> {}]
  /\ execCalls = [j \in Jobs |-> <<>>]
  /\ wsolCalls = [j \in Jobs |-> <<>>]
  /\ swapped = [j \in Jobs |-> FALSE]
  /\ http = [r \in Jobs |-> Admitted]
  /\ tasks = <<>>
  /\ wsLog = [c \in DOMAIN conns |-> <<>>]

\* orders whose token_in is a mint other than SOL: executeSwap has nothing to
\* wrap, and a failed wrap is one of the ways executeSwap throws
Init == InitWith({OtherMint})

\* orders of every kind of token_in
InitSwap == InitWith(TokenIns)

\* ------------------------------------------------------------------------
\* Job queue (BullMQ, as configured by queue.add in src/src/server.ts)
\* ------------------------------------------------------------------------
\* a waiting job is handed to the processor
QueueDeliver(j) ==
  /\ jobState[j] = "waiting"
  /\ jobState' = [jobState EXCEPT ![j] = "active"]
  /\ pc' = [pc EXCEPT ![j] = "pubPending"]
  /\ tryIdx' = [tryIdx EXCEPT ![j] = 0]
  /\ quotes' = [quotes EXCEPT ![j] = <<>>]
  /\ venueCalls' = [venueCalls EXCEPT ![j] = <<>>]
  /\ quote' = [quote EXCEPT ![j] = NoQuote]
  /\ res' = [res EXCEPT ![j] = NoRes]
  /\ err' = [err EXCEPT ![j] = Null]
  /\ published' = [published EXCEPT ![j] = <<>>]
  /\ failedWrites' = [failedWrites EXCEPT ![j] = <<>>]
  /\ statusWrites' = [statusWrites EXCEPT ![j] = {}]
  /\ execCalls' = [execCalls EXCEPT ![j] = <<>>]
  /\ wsolCalls' = [wsolCalls EXCEPT ![j] = <<>>]
  /\ UNCHANGED <<envVars, db, jobData, attemptsMade, stalls, wsVars, inbox, delivered,
                 swapped, http>>

\* the processor returned { ok: true }
QueueComplete(j) ==
  /\ pc[j] = "return"
  /\ jobState' = [jobState EXCEPT ![j] = "completed"]
  /\ pc' = [pc EXCEPT ![j] = "idle"]
  /\ UNCHANGED <<envVars, db, jobData, attemptsMade, stalls, tryIdx, quotes, venueCalls, quote, res,
                 err, wsVars, inbox, delivered, published, failedWrites, statusWrites,
                 execCalls, wsolCalls, swapped, http>>

\* the processor threw: retried while attemptsMade < attempts, else failed
QueueRetryOrFail(j) ==
  /\ pc[j] = "throw"
  /\ attemptsMade' = [attemptsMade EXCEPT ![j] = @ + 1]
  /\ jobState' = [jobState EXCEPT ![j] =
        IF attemptsMade[j] + 1 < QueueAttempts THEN "waiting" ELSE "failed"]
  /\ pc' = [pc EXCEPT ![j] = "idle"]
  /\ UNCHANGED <<envVars, db, jobData, stalls, tryIdx, quotes, venueCalls, quote, res,
                 err, wsVars, inbox, delivered, published, failedWrites, statusWrites,
                 execCalls, wsolCalls, swapped, http>>

\* the worker process died or stalled while it held the job: its lock expires,
\* the queue reports the job stalled and puts it back for another delivery
\* (what the processor had in memory is gone, what it wrote stays)
QueueStall(j) ==
  /\ jobState[j] = "active"
  /\ stalls[j] < MaxStalls
  /\ stalls' = [stalls EXCEPT ![j] = @ + 1]
  /\ jobState' = [jobState EXCEPT ![j] = "waiting"]
  /\ pc' = [pc EXCEPT ![j] = "idle"]
  /\ UNCHANGED <<envVars, db, jobData, attemptsMade, tryIdx, quotes, venueCalls,
                 quote, res, err, wsVars, inbox, delivered, published,
                 failedWrites, statusWrites, execCalls, wsolCalls, swapped, http>>

\* ------------------------------------------------------------------------
\* publishOrderUpdate (src/unnamed/part_001) as called by the processor
\* ------------------------------------------------------------------------
Event(orderId, status, txHash, executedOut, error) ==
  [orderId |-> orderId, status |-> status, txHash |-> txHash,
   executedOut |-> executedOut, error |-> error, dex |-> Null]

\* the building event carries the chosen venue
BuildingEvent(orderId, dex) ==
  [Event(orderId, "building", Null, NoNum, Null) EXCEPT !.dex = dex]

\* a publishOrderUpdate whose catch logs without rethrowing
PublishOrderUpdateSwallows(j, ev, okPc, failPc) ==
  \/ /\ Channel(ev.orderId) \in channels => Len(inbox) < MaxInFlight
     /\ published' = [published EXCEPT ![j] = Append(@, ev)]
     /\ inbox' = IF Channel(ev.orderId) \in channels
                 THEN Append(inbox, <<Channel(ev.orderId), ev>>)
                 ELSE inbox
     /\ pc' = [pc EXCEPT ![j] = okPc]
     /\ err' = err
  \/ /\ pc' = [pc EXCEPT ![j] = okPc]
     /\ err' = err
     /\ UNCHANGED <<published, inbox>>

\* pub.publish resolves: Redis pushes the message to `sub` when it is
\* subscribed to the channel.  pub.publish rejects: the catch logs and rethrows.
PublishOrderUpdate(j, ev, okPc, failPc) ==
  \/ /\ Channel(ev.orderId) \in channels => Len(inbox) < MaxInFlight
     /\ published' = [published EXCEPT ![j] = Append(@, ev)]
     /\ inbox' = IF Channel(ev.orderId) \in channels
                 THEN Append(inbox, <<Channel(ev.orderId), ev>>)
                 ELSE inbox
     /\ pc' = [pc EXCEPT ![j] = okPc]
     /\ err' = err
  \/ /\ pc' = [pc EXCEPT ![j] = failPc]
     /\ err' = [err EXCEPT ![j] = "BusPublishError"]
     /\ UNCHANGED <<published, inbox>>

\* ------------------------------------------------------------------------
\* retry(fn, attempts) around one pool.query (db section of src/src/server.ts)
\* One step is one pool.query: it is applied and acknowledged, applied but
\* reported as failed (the acknowledgement is lost), or not applied.
\* ------------------------------------------------------------------------
QueryOutcomes == {"ok", "lost", "fail"}

\* a retry that gives up at the first failure
RetryGivesUpAtOnce(i, attempts) == TRUE

RetryGivesUp(i, attempts) == i = attempts - 1

RetryQuery(j, id, stmt, label, attempts, okPc, failPc, okErr) ==
  \E outcome \in QueryOutcomes :
    /\ db' = IF outcome # "fail" THEN ApplyToDb(db, id, stmt) ELSE db
    /\ failedWrites' =
         IF outcome # "fail" /\ id \in DOMAIN db /\ label = "failed"
         THEN [failedWrites EXCEPT ![j] =
                 Append(@, [before |-> db[id].attempts,
                            after |-> ApplyStmt(db[id], stmt).attempts,
                            error |-> ApplyStmt(db[id], stmt).error])]
         ELSE failedWrites
    /\ statusWrites' =
         IF outcome # "fail" /\ id \in DOMAIN db /\ stmt.kind = "updateOrderStatus"
         THEN [statusWrites EXCEPT ![j] = @ \cup {stmt.status}]
         ELSE statusWrites
    /\ IF outcome = "ok"
       THEN /\ pc' = [pc EXCEPT ![j] = okPc]
            /\ tryIdx' = [tryIdx EXCEPT ![j] = 0]
            /\ err' = [err EXCEPT ![j] = okErr]
       ELSE IF RetryGivesUp(tryIdx[j], attempts)
            THEN /\ pc' = [pc EXCEPT ![j] = failPc]
                 /\ tryIdx' = [tryIdx EXCEPT ![j] = 0]
                 /\ err' = [err EXCEPT ![j] = "PersistenceError"]
            ELSE /\ tryIdx' = [tryIdx EXCEPT ![j] = @ + 1]
                 /\ UNCHANGED <<pc, err>>

\* ------------------------------------------------------------------------
\* Worker processor (src/src/worker.ts), one action per awaited statement
\* ------------------------------------------------------------------------
Oid(j) == jobData[j].orderId
AmountBn(j) == jobData[j].amount_in[1]

pubFrame == <<envVars, db, queueVars, tryIdx, quotes, venueCalls, quote, res, wsVars,
              delivered, failedWrites, statusWrites,
                 execCalls, wsolCalls, swapped, http>>
dbFrame == <<envVars, queueVars, quotes, venueCalls, quote, res, wsVars, inbox, delivered,
             published, execCalls, wsolCalls, swapped, http>>

\* line 33
PublishPending(j) ==
  /\ pc[j] = "pubPending"
  /\ PublishOrderUpdate(j, Event(Oid(j), "pending", Null, NoNum, Null),
                        "dbPending", "throw")
  /\ UNCHANGED pubFrame

\* line 34
UpdatePending(j) ==
  /\ pc[j] = "dbPending"
  /\ RetryQuery(j, Oid(j), UpdateStmt("pending", NoOpts),
                "pending", UpdateRetryAttempts, "parseAmount", "throw", err[j])
  /\ UNCHANGED dbFrame

\* lines 36-40: new BN(amount_in.toString()) throws when amount_in is missing
ParseAmount(j) ==
  /\ pc[j] = "parseAmount"
  /\ IF jobData[j].amount_in = NoNum
     THEN /\ pc' = [pc EXCEPT ![j] = "throw"]
          /\ err' = [err EXCEPT ![j] = "TypeError"]
     ELSE /\ pc' = [pc EXCEPT ![j] = "pubRouting"]
          /\ err' = err
  /\ UNCHANGED <<envVars, db, queueVars, tryIdx, quotes, venueCalls, quote, res, wsVars,
                 inbox, delivered, published, failedWrites, statusWrites,
                 execCalls, wsolCalls, swapped, http>>

\* line 43
PublishRouting(j) ==
  /\ pc[j] = "pubRouting"
  /\ PublishOrderUpdate(j, Event(Oid(j), "routing", Null, NoNum, Null),
                        "getBestQuote", "throw")
  /\ UNCHANGED pubFrame

routerFrame == <<envVars, db, queueVars, tryIdx, res, err, wsVars, inbox,
                 delivered, published, failedWrites, statusWrites,
                 execCalls, wsolCalls, swapped, http>>

\* a quote request to a venue: issued (pending), then settled with a quote
\* (ok) or an error; a venue that is not configured gets no request
VenueCall(dex, state) == [dex |-> dex, state |-> state]

IssueCall(calls, configured, dex) ==
  IF configured THEN Append(calls, VenueCall(dex, "pending")) ELSE calls

SettleCall(calls, configured, r) ==
  IF configured
  THEN [calls EXCEPT ![Len(calls)].state = IF r = NoNum THEN "error" ELSE "ok"]
  ELSE calls

\* getBestQuote without the envUseMock() branch
GetBestQuoteNoShortCircuit(j) ==
  /\ pc[j] = "getBestQuote"
  /\ quotes' = [quotes EXCEPT ![j] = <<>>]
  /\ venueCalls' = [venueCalls EXCEPT ![j] =
                      IssueCall(<<>>, meteoraPool, "meteora")]
  /\ pc' = [pc EXCEPT ![j] = "quoteMeteora"]
  /\ quote' = quote
  /\ UNCHANGED routerFrame

\* getBestQuote, lines 126-137: the simulation flag short-circuits; otherwise
\* the Meteora request is issued if configured
GetBestQuoteStart(j) ==
  /\ pc[j] = "getBestQuote"
  /\ IF useMock
     THEN /\ quote' = [quote EXCEPT ![j] = MockQuote(AmountBn(j))]
          /\ pc' = [pc EXCEPT ![j] = "setRouting"]
          /\ UNCHANGED <<quotes, venueCalls>>
     ELSE /\ quotes' = [quotes EXCEPT ![j] = <<>>]
          /\ venueCalls' = [venueCalls EXCEPT ![j] =
                              IssueCall(<<>>, meteoraPool, "meteora")]
          /\ pc' = [pc EXCEPT ![j] = "quoteMeteora"]
          /\ quote' = quote
  /\ UNCHANGED routerFrame

\* what one venue contributes: a venue that is not configured is not queried,
\* a configured venue answers with an amount or its call throws (NoNum)
VenueResponses(configured) ==
  IF configured THEN {Num(v) : v \in QuoteVals} \cup {NoNum} ELSE {NoNum}

\* a failed quote call that discards what the other venues returned
PushQuoteAbortsOthers(qs, dex, r) ==
  IF r = NoNum THEN <<>> ELSE Append(qs, VenueQuote(dex, r[1]))

\* try { quotes.push(await getXQuote(...)) } catch { warn }
PushQuote(qs, dex, r) ==
  IF r = NoNum THEN qs ELSE Append(qs, VenueQuote(dex, r[1]))

\* getBestQuote, lines 138-145: the Meteora request settles (a failure is
\* swallowed); lines 146-148: the Raydium request is issued if configured
QueryMeteora(j) ==
  /\ pc[j] = "quoteMeteora"
  /\ \E r \in VenueResponses(meteoraPool) :
       /\ quotes' = [quotes EXCEPT ![j] = PushQuote(@, "meteora", r)]
       /\ venueCalls' = [venueCalls EXCEPT ![j] =
            IssueCall(SettleCall(@, meteoraPool, r), raydiumPool, "raydium")]
  /\ pc' = [pc EXCEPT ![j] = "quoteRaydium"]
  /\ UNCHANGED <<quote, routerFrame>>

\* getBestQuote, lines 148-155: the Raydium request settles (a failure is
\* swallowed)
QueryRaydium(j) ==
  /\ pc[j] = "quoteRaydium"
  /\ \E r \in VenueResponses(raydiumPool) :
       /\ quotes' = [quotes EXCEPT ![j] = PushQuote(@, "raydium", r)]
       /\ venueCalls' = [venueCalls EXCEPT ![j] = SettleCall(@, raydiumPool, r)]
  /\ pc' = [pc EXCEPT ![j] = "selectQuote"]
  /\ UNCHANGED <<quote, routerFrame>>

\* getBestQuote, lines 157-176: fallback when nothing was collected, else the
\* head of the sorted quotes
ChooseQuote(qs, amountIn) ==
  IF Len(qs) = 0 THEN MockQuote(amountIn) ELSE SortQuotes(qs)[1]

SelectQuote(j) ==
  /\ pc[j] = "selectQuote"
  /\ quote' = [quote EXCEPT ![j] = ChooseQuote(quotes[j], AmountBn(j))]
  /\ pc' = [pc EXCEPT ![j] = "setRouting"]
  /\ UNCHANGED <<quotes, venueCalls, routerFrame>>

RoutingOf(q) ==
  [k \in {"chosen", "estimatedOut", "details"} |->
     IF k = "chosen" THEN q.dex
     ELSE IF k = "estimatedOut" THEN Num(q.out)
     ELSE IF q.simulated THEN "simulated" ELSE "venue"]

\* line 61
SetRouting(j) ==
  /\ pc[j] = "setRouting"
  /\ RetryQuery(j, Oid(j), RoutingStmt(RoutingOf(quote[j])),
                "routing_info", RoutingRetryAttempts, "pubBuilding", "throw", err[j])
  /\ UNCHANGED dbFrame

\* line 62
PublishBuilding(j) ==
  /\ pc[j] = "pubBuilding"
  /\ PublishOrderUpdate(j, BuildingEvent(Oid(j), quote[j].dex),
                        "dbRouting", "throw")
  /\ UNCHANGED pubFrame

\* line 63
UpdateRouting(j) ==
  /\ pc[j] = "dbRouting"
  /\ RetryQuery(j, Oid(j), UpdateStmt("routing", NoOpts),
                "routing", UpdateRetryAttempts, "pubSubmitted", "throw", err[j])
  /\ UNCHANGED dbFrame

\* line 68 (inside the inner try)
PublishSubmitted(j) ==
  /\ pc[j] = "pubSubmitted"
  /\ PublishOrderUpdate(j, Event(Oid(j), "submitted", Null, NoNum, Null),
                        "executeSwap", "pubFailed")
  /\ UNCHANGED pubFrame

\* executeSwap (dexRouter.ts lines 182-334): the simulated path always
\* returns; a venue swap returns a transaction id and an amount, or throws
SwapNeverSimulated(mock, dex) == FALSE
SwapIsSimulated(mock, dex) == mock \/ dex = "mock"

\* the results executeSwap can produce; NoRes stands for a throw
SwapResults(mock, dex, amountIn) ==
  IF SwapIsSimulated(mock, dex)
  THEN { [txId |-> "MOCK", executedOut |-> Num(SyntheticOut(amountIn)),
          dex |-> "mock", simulated |-> TRUE] }
  ELSE { [txId |-> "SIG", executedOut |-> Num(out), dex |-> dex,
          simulated |-> FALSE] : out \in QuoteVals } \cup {NoRes}

\* a finally block that is skipped when the try block throws
CleanupCallsOnReturnOnly(wrapped, threw) ==
  IF wrapped /\ ~threw THEN <<"cleanup">> ELSE <<>>

\* finally { if (cleanupWrapped) await cleanupWrapped() }: lines 329-333
CleanupCalls(wrapped, threw) ==
  IF wrapped THEN <<"cleanup">> ELSE <<>>

\* lines 206-215: the WSOL mint needs no wrap, native SOL (or no tokenIn) is
\* wrapped, any other mint is used as it is
SwapWraps(tokenIn) ==
  IF tokenIn = WSOL_MINT THEN FALSE
  ELSE tokenIn = "SOL" \/ tokenIn = Undefined

\* wrapSOLAndGetCleanup (solanaHelpers.ts lines 19-33) returns the cleanup
\* function or throws; cleanupWrapped stays null when it throws
WrapCalls(wraps, wrapOk) ==
  IF ~wraps THEN <<>>
  ELSE IF wrapOk THEN <<"wrapped">> ELSE <<"wrapFailed">>

ExecuteSwap(j) ==
  /\ pc[j] = "executeSwap"
  /\ \E r \in SwapResults(useMock, quote[j].dex, AmountBn(j)), wrapOk \in BOOLEAN :
       LET wraps == /\ ~SwapIsSimulated(useMock, quote[j].dex)
                    /\ SwapWraps(token_in[j])
       IN /\ ~wraps => wrapOk
          /\ (wraps /\ ~wrapOk) => r = NoRes
          /\ res' = [res EXCEPT ![j] = r]
          /\ execCalls' = [execCalls EXCEPT ![j] =
                             Append(@, IF r = NoRes THEN "throw" ELSE "ok")]
          /\ wsolCalls' = [wsolCalls EXCEPT ![j] =
                             WrapCalls(wraps, wrapOk)
                               \o CleanupCalls(wraps /\ wrapOk, r = NoRes)]
          /\ swapped' = [swapped EXCEPT ![j] = @ \/ r # NoRes]
          /\ pc' = [pc EXCEPT ![j] = IF r = NoRes THEN "pubFailed" ELSE "pubConfirmed"]
          /\ err' = [err EXCEPT ![j] = IF r = NoRes THEN "ExecutionError" ELSE @]
  /\ UNCHANGED <<envVars, db, queueVars, tryIdx, quotes, venueCalls, quote, wsVars, inbox,
                 delivered, published, failedWrites, statusWrites, http>>

\* line 89
PublishConfirmed(j) ==
  /\ pc[j] = "pubConfirmed"
  /\ PublishOrderUpdate(j, Event(Oid(j), "confirmed", res[j].txId,
                                 res[j].executedOut, Null),
                        "dbConfirmed", "pubFailed")
  /\ UNCHANGED pubFrame

ConfirmedOpts(j) ==
  [attemptsDelta |-> 0, error |-> Null, txHash |-> res[j].txId,
   executedPrice |-> res[j].executedOut,
   routing |-> [k \in {"chosen"} |-> quote[j].dex]]

\* lines 90-98
UpdateConfirmed(j) ==
  /\ pc[j] = "dbConfirmed"
  /\ RetryQuery(j, Oid(j),
                UpdateStmt("confirmed", ConfirmedOpts(j)),
                "confirmed", UpdateRetryAttempts, "return", "pubFailed", err[j])
  /\ UNCHANGED dbFrame

\* line 102 (inner catch)
PublishFailed(j) ==
  /\ pc[j] = "pubFailed"
  /\ PublishOrderUpdate(j, Event(Oid(j), "failed", Null, NoNum, err[j]),
                        "dbFailed", "throw")
  /\ UNCHANGED pubFrame

FailedOpts(e) ==
  [attemptsDelta |-> 1, error |-> e, txHash |-> Null,
   executedPrice |-> NoNum, routing |-> EmptyObj]

\* lines 103-104 (inner catch): persist, then rethrow the caught error
UpdateFailed(j) ==
  /\ pc[j] = "dbFailed"
  /\ RetryQuery(j, Oid(j),
                UpdateStmt("failed", FailedOpts(err[j])),
                "failed", UpdateRetryAttempts, "throw", "throw", err[j])
  /\ UNCHANGED dbFrame

\* ------------------------------------------------------------------------
\* Gateway: websocket connections (GET /ws of src/src/server.ts) and the
\* Redis subscriber connection of wsManager
\* ------------------------------------------------------------------------
wsFrame == <<envVars, db, queueVars, pc, tryIdx, quotes, venueCalls, quote, res, err,
             published, failedWrites, statusWrites,
                 execCalls, wsolCalls, swapped, http, tasks, wsLog>>

\* a client connects with ?token=<valid token of order o>: lines 176-187
WsConnect(c, o) ==
  /\ conns[c].readyState = "NONE"
  /\ conns' = [conns EXCEPT ![c] = [readyState |-> "OPEN", authedOrderId |-> o]]
  /\ subscribers' = SubscribeRegistry(subscribers, o, c)
  /\ subCmds' = subCmds \o SubscribeCmds(subscribers, o)
  /\ UNCHANGED <<channels, subLog, sendThrows, inbox, delivered, wsFrame>>

\* ws.on('close'): lines 189-198
WsClose(c) ==
  /\ conns[c].readyState = "OPEN"
  /\ conns' = [conns EXCEPT ![c].readyState = "CLOSED"]
  /\ IF conns[c].authedOrderId # Null
     THEN /\ subscribers' = UnsubscribeRegistry(subscribers, conns[c].authedOrderId, c)
          /\ subCmds' = subCmds \o UnsubscribeCmds(subscribers, conns[c].authedOrderId, c)
     ELSE UNCHANGED <<subscribers, subCmds>>
  /\ UNCHANGED <<channels, subLog, sendThrows, inbox, delivered, wsFrame>>

\* the Redis server processes the next command of the `sub` connection
RedisSubCommand ==
  /\ subCmds # <<>>
  /\ channels' = IF Head(subCmds)[1] = "subscribe"
                 THEN channels \cup {Head(subCmds)[2]}
                 ELSE channels \ {Head(subCmds)[2]}
  /\ subCmds' = Tail(subCmds)
  /\ subLog' = Append(subLog, Head(subCmds))
  /\ UNCHANGED <<subscribers, conns, sendThrows, inbox, delivered, wsFrame>>

\* a relay that sends to the OPEN sockets of every order
RelayTargetsOfAnyOrder(subs, cs, id) ==
  {c \in DOMAIN cs : cs[c].readyState = "OPEN" /\ \E o \in DOMAIN subs : c \in subs[o]}

\* sub.on('message'): relay to the OPEN sockets registered for the order
RelayTargets(subs, cs, id) ==
  IF id \in DOMAIN subs
  THEN {c \in subs[id] : cs[c].readyState = "OPEN"}
  ELSE {}

\* the connections that get the payload when ws.send throws for some of the
\* targets: each send has its own try/catch
RelayStopsAtFailure(targets, throwing) == IF throwing = {} THEN targets ELSE {}
RelayReceivers(targets, throwing) == targets \ throwing

OnMessage ==
  /\ inbox # <<>>
  /\ \A c \in RelayTargets(subscribers, conns, Head(inbox)[1][2]) :
       Len(delivered[c]) < MaxReads
  /\ LET id == Head(inbox)[1][2]
         message == Head(inbox)[2]
         targets == RelayTargets(subscribers, conns, id)
     IN delivered' = [c \in DOMAIN delivered |->
                        IF c \in RelayReceivers(targets, targets \cap sendThrows)
                        THEN Append(delivered[c], message)
                        ELSE delivered[c]]
  /\ inbox' = Tail(inbox)
  /\ UNCHANGED <<wsVars, wsFrame>>

\* ------------------------------------------------------------------------
\* wsManager called directly, with another process publishing on the bus
\* ------------------------------------------------------------------------
CmdsIssued == Len(subLog) + Len(subCmds)

\* subscribeSocket(orderId, ws): lines 27-38
SubscribeSocket(o, c) ==
  /\ CmdsIssued + Len(SubscribeCmds(subscribers, o)) <= MaxCmds
  /\ subscribers' = SubscribeRegistry(subscribers, o, c)
  /\ subCmds' = subCmds \o SubscribeCmds(subscribers, o)
  /\ UNCHANGED <<conns, channels, subLog, sendThrows, inbox, delivered, wsFrame>>

\* unsubscribeSocket(orderId, ws): lines 40-54
UnsubscribeSocket(o, c) ==
  /\ CmdsIssued + Len(UnsubscribeCmds(subscribers, o, c)) <= MaxCmds
  /\ subscribers' = UnsubscribeRegistry(subscribers, o, c)
  /\ subCmds' = subCmds \o UnsubscribeCmds(subscribers, o, c)
  /\ UNCHANGED <<conns, channels, subLog, sendThrows, inbox, delivered, wsFrame>>

\* a socket leaves OPEN; its close handler has not called unsubscribeSocket yet
SocketCloses(c) ==
  /\ conns[c].readyState = "OPEN"
  /\ conns' = [conns EXCEPT ![c].readyState = "CLOSED"]
  /\ UNCHANGED <<subscribers, subCmds, channels, subLog, sendThrows, inbox,
                 delivered, wsFrame>>

\* a socket gets into a condition in which ws.send throws
SocketBreaks(c) ==
  /\ c \notin sendThrows
  /\ sendThrows' = sendThrows \cup {c}
  /\ UNCHANGED <<subscribers, conns, subCmds, channels, subLog, inbox,
                 delivered, wsFrame>>

\* another process (a worker, whose own registry is empty) calls
\* publishOrderUpdate(o, payload)
BusPublish(j, o) ==
  /\ Len(published[j]) < MaxPublishes
  /\ PublishOrderUpdate(j, Event(o, IF published[j] = <<>> THEN "pending" ELSE "routing",
                                 Null, NoNum, Null),
                        pc[j], pc[j])
  /\ UNCHANGED pubFrame

\* ------------------------------------------------------------------------
\* Specifications
\* ------------------------------------------------------------------------
\* the steps of getBestQuote
NextRouter ==
  \/ \E j \in Jobs : GetBestQuoteStart(j)
  \/ \E j \in Jobs : QueryMeteora(j)
  \/ \E j \in Jobs : QueryRaydium(j)
  \/ \E j \in Jobs : SelectQuote(j)

\* the job queue and the worker processor
\* ------------------------------------------------------------------------
\* GET /ws handler (src/src/server.ts lines 104-199), one action per
\* synchronous stretch of a handler
\* ------------------------------------------------------------------------
Hmac(orderId) == <<"hmac", orderId>>

\* createWsToken: `${orderId}:${hmac}`; parts is the number of ':'-separated
\* pieces of the string
CreateWsToken(orderId) == [orderId |-> orderId, sig |-> Hmac(orderId), parts |-> 2]

\* no token: null, undefined or the empty string
NoToken == [orderId |-> Undefined, sig |-> <<>>, parts |-> 0]

\* what a client can present: the token of either order, a token with the
\* signature of another order, a string without ':', or nothing
Tokens ==
  {CreateWsToken(o) : o \in RegOrders}
    \cup {[orderId |-> "o1", sig |-> Hmac("o2"), parts |-> 2],
          [orderId |-> "o1", sig |-> <<>>, parts |-> 1],
          NoToken}

\* a verification that does not compare the signature
VerifyWsTokenUnsigned(token) ==
  IF token = NoToken THEN Null
  ELSE IF token.parts # 2 THEN Null
  ELSE token.orderId

\* verifyWsToken: lines 26-33
VerifyWsToken(token) ==
  IF token = NoToken THEN Null
  ELSE IF token.parts # 2 THEN Null
  ELSE IF Hmac(token.orderId) = token.sig THEN token.orderId ELSE Null

\* JSON messages of a client
Messages ==
  { m \in [action : {"auth", "subscribe", "ping"}, token : Tokens,
           orderId : RegOrders \cup {Undefined}] :
      /\ m.action = "ping" => m.token = NoToken /\ m.orderId = Undefined
      /\ m.action = "auth" => m.orderId = Undefined }

ConnectEntry(token) ==
  [msg |-> [action |-> "connect", token |-> token, orderId |-> Undefined],
   replies |-> <<>>]

\* ws.send(reply) to a socket: nothing is sent unless the socket is OPEN
Reply(log, cs, c, i, reply) ==
  IF cs[c].readyState = "OPEN"
  THEN [log EXCEPT ![c][i].replies = Append(@, reply)]
  ELSE log

Subscribed(orderId) == [status |-> "subscribed", orderId |-> orderId]

sessFrame == <<envVars, db, queueVars, pc, tryIdx, quotes, venueCalls, quote, res, err,
               published, failedWrites, statusWrites, execCalls, wsolCalls, swapped,
               http, channels, subLog, sendThrows, inbox, delivered>>

\* lines 104-121, 176-182: a client connects; a query token that verifies
\* sets authedOrderId and the handler waits for the import
WsOpen(c, token) ==
  /\ conns[c].readyState = "NONE"
  /\ LET id == VerifyWsToken(token)
     IN /\ conns' = [conns EXCEPT ![c] = [readyState |-> "OPEN", authedOrderId |-> id]]
        /\ tasks' = IF id # Null
                    THEN Append(tasks, [kind |-> "subscribe", orderId |-> id,
                                        conn |-> c, entry |-> 1])
                    ELSE tasks
  /\ wsLog' = [wsLog EXCEPT ![c] = <<ConnectEntry(token)>>]
  /\ UNCHANGED <<subscribers, subCmds, sessFrame>>

\* lines 124-173: ws.on('message') up to its first await or return
WsMessage(c, m) ==
  /\ conns[c].readyState \in {"OPEN", "CLOSING"}
  /\ Len(wsLog[c]) < 1 + MaxMsgs
  /\ LET i == Len(wsLog[c]) + 1
         log == [wsLog EXCEPT ![c] = Append(@, [msg |-> m, replies |-> <<>>])]
         id == VerifyWsToken(m.token)
     IN IF m.action = "auth" /\ m.token # NoToken
        THEN IF id = Null
             THEN /\ wsLog' = Reply(log, conns, c, i, [error |-> "invalid_token"])
                  /\ conns' = [conns EXCEPT ![c].readyState = "CLOSING"]
                  /\ tasks' = tasks
             ELSE /\ wsLog' = log
                  /\ conns' = [conns EXCEPT ![c].authedOrderId = id]
                  /\ tasks' = Append(tasks, [kind |-> "subscribe", orderId |-> id,
                                              conn |-> c, entry |-> i])
        ELSE IF m.action = "subscribe" /\ m.orderId # Undefined /\ m.token # NoToken
        THEN IF id = Null \/ id # m.orderId
             THEN /\ wsLog' = Reply(log, conns, c, i,
                                    [error |-> "invalid_token_for_order"])
                  /\ UNCHANGED <<conns, tasks>>
             ELSE /\ wsLog' = log
                  /\ conns' = [conns EXCEPT ![c].authedOrderId = m.orderId]
                  /\ tasks' = Append(tasks, [kind |-> "subscribe", orderId |-> m.orderId,
                                              conn |-> c, entry |-> i])
        ELSE IF m.action = "ping"
        THEN /\ wsLog' = Reply(log, conns, c, i, [action |-> "pong"])
             /\ UNCHANGED <<conns, tasks>>
        ELSE /\ wsLog' = log
             /\ UNCHANGED <<conns, tasks>>
  /\ UNCHANGED <<subscribers, subCmds, sessFrame>>

\* lines 189-198: the socket closes; the close handler unsubscribes the
\* order authedOrderId names, after the import
WsCloseEvent(c) ==
  /\ conns[c].readyState \in {"OPEN", "CLOSING"}
  /\ conns' = [conns EXCEPT ![c].readyState = "CLOSED"]
  /\ tasks' = IF conns[c].authedOrderId # Null
              THEN Append(tasks, [kind |-> "unsubscribe",
                                  orderId |-> conns[c].authedOrderId,
                                  conn |-> c, entry |-> 0])
              ELSE tasks
  /\ UNCHANGED <<subscribers, subCmds, wsLog, sessFrame>>

\* the import resolves for the handler that has waited longest: lines
\* 145-147, 159-161, 181-183 (subscribeSocket and the acknowledgement) or
\* lines 192-193 (unsubscribeSocket)
ImportResolves ==
  /\ tasks # <<>>
  /\ LET t == Head(tasks)
     IN IF t.kind = "subscribe"
        THEN /\ subscribers' = SubscribeRegistry(subscribers, t.orderId, t.conn)
             /\ subCmds' = subCmds \o SubscribeCmds(subscribers, t.orderId)
             /\ wsLog' = Reply(wsLog, conns, t.conn, t.entry, Subscribed(t.orderId))
        ELSE /\ subscribers' = UnsubscribeRegistry(subscribers, t.orderId, t.conn)
             /\ subCmds' = subCmds \o UnsubscribeCmds(subscribers, t.orderId, t.conn)
             /\ wsLog' = wsLog
  /\ tasks' = Tail(tasks)
  /\ UNCHANGED <<conns, sessFrame>>

\* ------------------------------------------------------------------------
\* Intake: POST /api/orders/execute (src/src/server.ts lines 61-100).
\* Request r creates the order and the job of the same index.
\* ------------------------------------------------------------------------
OrderOf(r) == "o1"

\* a handler that does not look at amount_in
BodyValidWithoutAmount(body) ==
  body.token_in # Undefined /\ body.token_out # Undefined

\* line 64
BodyValid(body) ==
  /\ body.token_in # Undefined
  /\ body.token_out # Undefined
  /\ body.amount_in # NoNum

intakeFrame == <<envVars, attemptsMade, stalls, pc, tryIdx, quotes, venueCalls, quote,
                 res, err, wsVars, inbox, delivered, published, failedWrites,
                 statusWrites, execCalls, wsolCalls, swapped>>

\* lines 63-66: a body without token_in, token_out or amount_in is answered 400
PostValidate(r) ==
  /\ http[r].pc = "validate"
  /\ http' = [http EXCEPT ![r] =
                IF BodyValid(http[r].body)
                THEN [@ EXCEPT !.pc = "insertOrder"]
                ELSE [@ EXCEPT !.pc = "done", !.reply = 400]]
  /\ UNCHANGED <<db, jobData, jobState, intakeFrame>>

\* lines 68-77: insertOrder, retry(..., 4, 400) around the INSERT; id is the
\* primary key, so an INSERT for an id that is already stored fails
PostInsertOrder(r) ==
  /\ http[r].pc = "insertOrder"
  /\ \E outcome \in QueryOutcomes :
       /\ OrderOf(r) \in DOMAIN db => outcome = "fail"
       /\ db' = IF outcome # "fail"
                THEN [o \in (DOMAIN db) \cup {OrderOf(r)} |->
                        IF o = OrderOf(r) THEN NewRow ELSE db[o]]
                ELSE db
       /\ http' = [http EXCEPT ![r] =
                     IF outcome = "ok"
                     THEN [@ EXCEPT !.pc = "queueAdd", !.tryIdx = 0]
                     ELSE IF RetryGivesUp(http[r].tryIdx, InsertRetryAttempts)
                          THEN [@ EXCEPT !.pc = "done", !.tryIdx = 0, !.reply = 500]
                          ELSE [@ EXCEPT !.tryIdx = @ + 1]]
  /\ UNCHANGED <<jobData, jobState, intakeFrame>>

\* lines 80-95: queue.add enqueues the job and the order id is returned, or
\* queue.add rejects and the catch answers 500
PostQueueAdd(r) ==
  /\ http[r].pc = "queueAdd"
  /\ \/ /\ jobData' = [jobData EXCEPT ![r] =
                        [orderId |-> OrderOf(r), amount_in |-> http[r].body.amount_in]]
        /\ jobState' = [jobState EXCEPT ![r] = "waiting"]
        /\ http' = [http EXCEPT ![r] = [@ EXCEPT !.pc = "done", !.reply = 200]]
     \/ /\ http' = [http EXCEPT ![r] = [@ EXCEPT !.pc = "done", !.reply = 500]]
        /\ UNCHANGED <<jobData, jobState>>
  /\ UNCHANGED <<db, intakeFrame>>

NextPipeline ==
  \/ \E j \in Jobs : QueueDeliver(j)
  \/ \E j \in Jobs : QueueComplete(j)
  \/ \E j \in Jobs : QueueRetryOrFail(j)
  \/ \E j \in Jobs : PublishPending(j)
  \/ \E j \in Jobs : UpdatePending(j)
  \/ \E j \in Jobs : ParseAmount(j)
  \/ \E j \in Jobs : PublishRouting(j)
  \/ NextRouter
  \/ \E j \in Jobs : SetRouting(j)
  \/ \E j \in Jobs : PublishBuilding(j)
  \/ \E j \in Jobs : UpdateRouting(j)
  \/ \E j \in Jobs : PublishSubmitted(j)
  \/ \E j \in Jobs : ExecuteSwap(j)
  \/ \E j \in Jobs : PublishConfirmed(j)
  \/ \E j \in Jobs : UpdateConfirmed(j)
  \/ \E j \in Jobs : PublishFailed(j)
  \/ \E j \in Jobs : UpdateFailed(j)

\* the gateway: websocket clients, the Redis subscriber connection, the relay
NextGateway ==
  \/ \E c \in Conns, o \in Orders : WsConnect(c, o)
  \/ \E c \in Conns : WsClose(c)
  \/ RedisSubCommand
  \/ OnMessage

Next == NextPipeline \/ NextGateway

\* the whole system, every configuration
Spec == Init /\ [][Next]_vars

\* the worker and its queue, every configuration and payload, no client attached
SpecPipeline == Init /\ [][NextPipeline]_vars

\* the worker and its queue for orders of every kind of token_in
SpecSwap == InitSwap /\ [][NextPipeline]_vars

\* admission in front of the worker and its queue: no order is stored and no
\* job is enqueued until a request is admitted
InitIntake ==
  /\ token_in = [j \in Jobs |-> OtherMint]
  /\ useMock \in BOOLEAN
  /\ meteoraPool \in BOOLEAN
  /\ raydiumPool \in BOOLEAN
  /\ db = [o \in {} |-> NewRow]
  /\ jobData = [j \in Jobs |-> [orderId |-> Undefined, amount_in |-> NoNum]]
  /\ jobState = [j \in Jobs |-> "absent"]
  /\ attemptsMade = [j \in Jobs |-> 0]
  /\ stalls = [j \in Jobs |-> 0]
  /\ pc = [j \in Jobs |-> "idle"]
  /\ tryIdx = [j \in Jobs |-> 0]
  /\ quotes = [j \in Jobs |-> <<>>]
  /\ venueCalls = [j \in Jobs |-> <<>>]
  /\ quote = [j \in Jobs |-> NoQuote]
  /\ res = [j \in Jobs |-> NoRes]
  /\ err = [j \in Jobs |-> Null]
  /\ subscribers = [o \in {} |-> {}]
  /\ conns = [c \in Conns |-> [readyState |-> "NONE", authedOrderId |-> Null]]
  /\ subCmds = <<>>
  /\ channels = {}
  /\ subLog = <<>>
  /\ sendThrows = {}
  /\ inbox = <<>>
  /\ delivered = [c \in Conns |-> <<>>]
  /\ published = [j \in Jobs |-> <<>>]
  /\ failedWrites = [j \in Jobs |-> <<>>]
  /\ statusWrites = [j \in Jobs |-> {}]
  /\ execCalls = [j \in Jobs |-> <<>>]
  /\ wsolCalls = [j \in Jobs |-> <<>>]
  /\ swapped = [j \in Jobs |-> FALSE]
  /\ http \in [Jobs -> [body : Bodies, pc : {"validate"}, tryIdx : {0}, reply : {Null}]]
  /\ tasks = <<>>
  /\ wsLog = [c \in DOMAIN conns |-> <<>>]

NextIntake ==
  \/ \E r \in Jobs : PostValidate(r)
  \/ \E r \in Jobs : PostInsertOrder(r)
  \/ \E r \in Jobs : PostQueueAdd(r)
  \/ NextPipeline

SpecIntake == InitIntake /\ [][NextIntake]_vars

\* the worker and its queue under at-least-once delivery: a job whose worker
\* died or stalled is delivered again
NextRedelivery ==
  \/ NextPipeline
  \/ \E j \in Jobs : QueueStall(j)

SpecRedelivery == Init /\ [][NextRedelivery]_vars

\* the same, where the queue and the processor keep taking steps: every
\* awaited call returns or throws, the queue hands over waiting jobs and
\* settles finished attempts
SpecPipelineFair == SpecPipeline /\ WF_vars(NextPipeline)

\* the steps that do not depend on executeSwap returning
StepsBesidesSwap == NextPipeline /\ ~(\E j \in Jobs : ExecuteSwap(j))

\* the worker and its queue where every awaited call returns or throws except
\* executeSwap, which may stay pending for ever: the processor only awaits it
SpecSwapMayHang == SpecPipeline /\ WF_vars(StepsBesidesSwap)

\* the whole system in the deployment of the integration test: no venue pool
\* is configured and the job has the payload Intake enqueues
InitGateway ==
  /\ Init
  /\ ~meteoraPool
  /\ ~raydiumPool
  /\ \A j \in Jobs : jobData[j].orderId \in Orders /\ jobData[j].amount_in # NoNum

SpecGateway == InitGateway /\ [][Next]_vars

\* the registry of one gateway process on its own, as the unit test calls it:
\* two open sockets, two orders, events published by another process
InitRegistryWith(cs, state) ==
  /\ token_in = [j \in Jobs |-> OtherMint]
  /\ useMock = TRUE
  /\ meteoraPool = FALSE
  /\ raydiumPool = FALSE
  /\ db = [o \in Orders |-> NewRow]
  /\ jobData = [j \in Jobs |-> [orderId |-> "o1", amount_in |-> Num(1000000)]]
  /\ jobState = [j \in Jobs |-> "waiting"]
  /\ attemptsMade = [j \in Jobs |-> 0]
  /\ stalls = [j \in Jobs |-> 0]
  /\ pc = [j \in Jobs |-> "idle"]
  /\ tryIdx = [j \in Jobs |-> 0]
  /\ quotes = [j \in Jobs |-> <<>>]
  /\ venueCalls = [j \in Jobs |-> <<>>]
  /\ quote = [j \in Jobs |-> NoQuote]
  /\ res = [j \in Jobs |-> NoRes]
  /\ err = [j \in Jobs |-> Null]
  /\ subscribers = [o \in {} |-> {}]
  /\ conns = [c \in cs |-> [readyState |-> state, authedOrderId |-> Null]]
  /\ subCmds = <<>>
  /\ channels = {}
  /\ subLog = <<>>
  /\ sendThrows = {}
  /\ inbox = <<>>
  /\ delivered = [c \in cs |-> <<>>]
  /\ published = [j \in Jobs |-> <<>>]
  /\ failedWrites = [j \in Jobs |-> <<>>]
  /\ statusWrites = [j \in Jobs |-> {}]
  /\ execCalls = [j \in Jobs |-> <<>>]
  /\ wsolCalls = [j \in Jobs |-> <<>>]
  /\ swapped = [j \in Jobs |-> FALSE]
  /\ http = [r \in Jobs |-> Admitted]
  /\ tasks = <<>>
  /\ wsLog = [c \in DOMAIN conns |-> <<>>]

InitRegistry == InitRegistryWith(RegConns, "OPEN")

\* one gateway process and its clients; a worker in another process
\* publishes events for both orders
InitSession == InitRegistryWith(Conns, "NONE")

NextSession ==
  \/ \E c \in Conns, t \in Tokens : WsOpen(c, t)
  \/ \E c \in Conns, m \in Messages : WsMessage(c, m)
  \/ \E c \in Conns : WsCloseEvent(c)
  \/ ImportResolves
  \/ \E j \in Jobs, o \in RegOrders : BusPublish(j, o)
  \/ RedisSubCommand
  \/ OnMessage

SpecSession == InitSession /\ [][NextSession]_vars

NextRegistry ==
  \/ \E o \in RegOrders, c \in RegConns : SubscribeSocket(o, c)
  \/ \E o \in RegOrders, c \in RegConns : UnsubscribeSocket(o, c)
  \/ \E c \in RegConns : SocketCloses(c)
  \/ \E c \in RegConns : SocketBreaks(c)
  \/ \E j \in Jobs, o \in RegOrders : BusPublish(j, o)
  \/ RedisSubCommand
  \/ OnMessage

SpecRegistry == InitRegistry /\ [][NextRegistry]_vars

\* getBestQuote called on its own, as the unit tests call it
InitRouter ==
  /\ token_in = [j \in Jobs |-> OtherMint]
  /\ useMock \in BOOLEAN
  /\ meteoraPool \in BOOLEAN
  /\ raydiumPool \in BOOLEAN
  /\ db = [o \in Orders |-> NewRow]
  /\ jobData \in [Jobs -> { [orderId |-> o, amount_in |-> Num(n)] :
                             o \in Orders, n \in RouterAmounts }]
  /\ jobState = [j \in Jobs |-> "active"]
  /\ attemptsMade = [j \in Jobs |-> 0]
  /\ stalls = [j \in Jobs |-> 0]
  /\ pc = [j \in Jobs |-> "getBestQuote"]
  /\ tryIdx = [j \in Jobs |-> 0]
  /\ quotes = [j \in Jobs |-> <<>>]
  /\ venueCalls = [j \in Jobs |-> <<>>]
  /\ quote = [j \in Jobs |-> NoQuote]
  /\ res = [j \in Jobs |-> NoRes]
  /\ err = [j \in Jobs |-> Null]
  /\ subscribers = [o \in {} |-> {}]
  /\ conns = [c \in Conns |-> [readyState |-> "NONE", authedOrderId |-> Null]]
  /\ subCmds = <<>>
  /\ channels = {}
  /\ subLog = <<>>
  /\ sendThrows = {}
  /\ inbox = <<>>
  /\ delivered = [c \in Conns |-> <<>>]
  /\ published = [j \in Jobs |-> <<>>]
  /\ failedWrites = [j \in Jobs |-> <<>>]
  /\ statusWrites = [j \in Jobs |-> {}]
  /\ execCalls = [j \in Jobs |-> <<>>]
  /\ wsolCalls = [j \in Jobs |-> <<>>]
  /\ swapped = [j \in Jobs |-> FALSE]
  /\ http = [r \in Jobs |-> Admitted]
  /\ tasks = <<>>
  /\ wsLog = [c \in DOMAIN conns |-> <<>>]

SpecRouter == InitRouter /\ [][NextRouter]_vars

\* ------------------------------------------------------------------------
\* Properties
\* ------------------------------------------------------------------------
\* position of a status in pending -> routing -> building -> submitted ->
\* {confirmed | failed}
Rank(status) ==
  CASE status = "pending" -> 1
    [] status = "routing" -> 2
    [] status = "building" -> 3
    [] status = "submitted" -> 4
    [] status = "confirmed" -> 5
    [] status = "failed" -> 5

CountStatus(events, status) ==
  Cardinality({i \in 1..Len(events) : events[i].status = status})

Malformed(j) == Oid(j) = Undefined \/ jobData[j].amount_in = NoNum

\* C1: the statuses delivered to a connection, over the whole life of the
\* order, are a subsequence of [pending, routing, building, submitted,
\* confirmed|failed]: strictly forward, and the first one is pending.
C1_DeliveredIsLifecycleSubsequence ==
  \A c \in Conns :
    /\ \A i \in 1..(Len(delivered[c]) - 1) :
         Rank(delivered[c][i].status) < Rank(delivered[c][i + 1].status)
    /\ Len(delivered[c]) > 0 => delivered[c][1].status = "pending"

\* C2: no write replaces the persisted status of an order by an earlier one
\* or moves the order out of confirmed/failed.
C2_StatusOnlyMovesForward ==
  [][\A o \in Orders :
       db'[o].status # db[o].status => Rank(db[o].status) < Rank(db'[o].status)]_vars

\* C3: a job attempt of an admitted order in which executeSwap threw, and
\* which persistence did not give up on, ends with exactly one published
\* failed event and exactly one applied status=failed write, which sets
\* attempts to the previous value plus 1 and error to the failure description.
C3_ExecFailureOneEventOneWrite ==
  \A j \in Jobs :
    (/\ pc[j] = "throw"
     /\ Oid(j) \in Orders
     /\ execCalls[j] = <<"throw">>
     /\ err[j] # "PersistenceError") =>
      /\ CountStatus(published[j], "failed") = 1
      /\ Len(failedWrites[j]) = 1
      /\ failedWrites[j][1].after = failedWrites[j][1].before + 1
      /\ failedWrites[j][1].error = "ExecutionError"

\* C4: the persisted attempts counter never exceeds the attempt cap of the
\* queue.
C4_AttemptsWithinQueueCap ==
  \A o \in Orders : db[o].attempts <= QueueAttempts

\* C5: the persisted attempts counter grows only in a job attempt whose
\* executeSwap call failed.
C5_AttemptsGrowOnlyOnExecFailure ==
  [][\A o \in Orders :
       db'[o].attempts > db[o].attempts =>
         \E j \in Jobs : Oid(j) = o /\ execCalls[j] = <<"throw">>]_vars

\* C6: a failed publish never aborts the state machine: no job attempt is in
\* its catch block, or thrown to the queue, because of a publish error.
C6_PublishFailureNeverAborts ==
  \A j \in Jobs :
    pc[j] \in {"pubFailed", "dbFailed", "throw"} => err[j] # "BusPublishError"

\* C7: a job with a malformed payload is failed at its first delivery and is
\* never delivered again.
C7_MalformedJobNeverRetried ==
  \A j \in Jobs :
    Malformed(j) =>
      /\ jobState[j] # "completed"
      /\ attemptsMade[j] <= 1
      /\ attemptsMade[j] = 1 => jobState[j] = "failed"

\* C8: with simulation off, a job attempt whose configured venues all failed
\* to quote never publishes confirmed and never persists status=confirmed.
C8_OutageNeverLooksFilled ==
  \A j \in Jobs :
    (/\ ~useMock
     /\ meteoraPool \/ raydiumPool
     /\ Oid(j) \in Orders
     /\ quote[j].dex = "mock") =>
      /\ CountStatus(published[j], "confirmed") = 0
      /\ db[Oid(j)].status # "confirmed"

\* C9: when quotes were collected, getBestQuote returns one of them with the
\* maximum output amount, and among equal maxima the one collected first:
\* Meteora's when Meteora quoted the maximum.
C9_BestQuoteIsFirstMaximum ==
  \A j \in Jobs :
    (pc[j] = "setRouting" /\ ~useMock /\ quotes[j] # <<>>) =>
      /\ \E i \in 1..Len(quotes[j]) :
           /\ quotes[j][i] = quote[j]
           /\ \A k \in 1..Len(quotes[j]) :
                /\ quotes[j][k].out <= quote[j].out
                /\ quotes[j][k].out = quote[j].out => i <= k
      /\ (\E k \in 1..Len(quotes[j]) :
            quotes[j][k].dex = "meteora" /\ quotes[j][k].out = quote[j].out)
           => quote[j].dex = "meteora"

\* a tie between the two venues was resolved
C9_Witness ==
  \E j \in Jobs :
    /\ pc[j] = "setRouting"
    /\ Len(quotes[j]) = 2
    /\ quotes[j][1].out = quotes[j][2].out
    /\ quote[j].dex = "meteora"

\* floor(n * 9949 / 10000), computed without a product wider than 31 bits
FloorFee(n) ==
  (n \div FeeDiv) * FeeMul + ((n % FeeDiv) * FeeMul) \div FeeDiv

\* C10: when no venue quoted, getBestQuote returns the synthetic quote with
\* output exactly floor(amountIn * 9949 / 10000); 994900 for 1000000.
C10_FallbackIsExactFloor ==
  \A j \in Jobs :
    (pc[j] = "setRouting" /\ ~useMock /\ quotes[j] = <<>>) =>
      /\ quote[j].dex = "mock"
      /\ quote[j].out = FloorFee(AmountBn(j))
      /\ AmountBn(j) <= 200000 => quote[j].out = (AmountBn(j) * FeeMul) \div FeeDiv
      /\ AmountBn(j) = 1000000 => quote[j].out = 994900

\* the fallback was taken for amountIn = 1000000
C10_Witness ==
  \E j \in Jobs :
    /\ pc[j] = "setRouting"
    /\ ~useMock
    /\ quotes[j] = <<>>
    /\ AmountBn(j) = 1000000
    /\ quote[j].out = 994900

\* C11: with USE_MOCK on, getBestQuote returns the synthetic quote (venue
\* mock, output floor(amountIn * 9949 / 10000)) whatever venues are configured,
\* and no quote request is issued to any venue.
C11_SimulationShortCircuits ==
  \A j \in Jobs :
    (pc[j] = "setRouting" /\ useMock) =>
      /\ quote[j].dex = "mock"
      /\ quote[j].simulated
      /\ quote[j].out = FloorFee(AmountBn(j))
      /\ venueCalls[j] = <<>>
      /\ quotes[j] = <<>>

\* the simulation flag was on with both venues configured
C11_Witness ==
  \E j \in Jobs :
    /\ pc[j] = "setRouting"
    /\ useMock
    /\ meteoraPool
    /\ raydiumPool
    /\ quote[j].dex = "mock"
    /\ AmountBn(j) = 1000000
    /\ quote[j].out = 994900

\* the venues whose quote request ended in the given state
CallsIn(calls, state) ==
  {calls[i].dex : i \in {k \in 1..Len(calls) : calls[k].state = state}}

\* C12: a venue whose quote call fails contributes no quote and the others
\* keep theirs: the collected quotes are exactly those of the venues that
\* answered, a lone surviving venue's quote is the one returned, and
\* getBestQuote itself does not throw.
C12_VenueFailureIsIsolated ==
  \A j \in Jobs :
    /\ pc[j] # "throw"
    /\ err[j] = Null
    /\ (pc[j] = "setRouting" /\ ~useMock) =>
         /\ {quotes[j][i].dex : i \in 1..Len(quotes[j])} = CallsIn(venueCalls[j], "ok")
         /\ Len(quotes[j]) = Cardinality(CallsIn(venueCalls[j], "ok"))
         /\ CallsIn(venueCalls[j], "pending") = {}
         /\ (CallsIn(venueCalls[j], "error") # {} /\ CallsIn(venueCalls[j], "ok") # {}) =>
              /\ quote[j].dex \in CallsIn(venueCalls[j], "ok")
              /\ quote[j] = quotes[j][1]

\* Meteora's call failed, Raydium's succeeded and its quote was returned
C12_Witness ==
  \E j \in Jobs :
    /\ pc[j] = "setRouting"
    /\ ~useMock
    /\ CallsIn(venueCalls[j], "error") = {"meteora"}
    /\ CallsIn(venueCalls[j], "ok") = {"raydium"}
    /\ quote[j].dex = "raydium"

\* C13: the venues are queried concurrently: while the Meteora quote request
\* is in flight, the Raydium quote request (when Raydium is configured) has
\* been issued too.
C13_VenueRequestsOverlap ==
  \A j \in Jobs :
    ("meteora" \in CallsIn(venueCalls[j], "pending") /\ raydiumPool) =>
      \E i \in 1..Len(venueCalls[j]) : venueCalls[j][i].dex = "raydium"

C15_AttemptPublishesInOrder ==
  \A j \in Jobs :
    \A i \in 1..(Len(published[j]) - 1) :
      Rank(published[j][i].status) < Rank(published[j][i + 1].status)

\* the statuses of a sequence of events
StatusesOf(events) == [i \in 1..Len(events) |-> events[i].status]

\* C16: when executeSwap is invoked, the attempt has, in this order,
\* persisted the routing info of the chosen quote, published building with
\* the chosen venue, moved the order to submitted and published submitted.
C16_ExecutionFollowsSubmitted ==
  \A j \in Jobs :
    (pc[j] = "executeSwap" /\ Oid(j) \in Orders) =>
      /\ ~db[Oid(j)].routing_null
      /\ db[Oid(j)].routing_info = RoutingOf(quote[j])
      /\ StatusesOf(published[j]) = <<"pending", "routing", "building", "submitted">>
      /\ published[j][3].dex = quote[j].dex
      /\ db[Oid(j)].status = "submitted"

\* C17: once an attempt that published confirmed has ended, the order record
\* has status confirmed with the txHash of the event, and the attempt wrote
\* no status=failed.
C17_ConfirmedEventIsDurable ==
  \A j \in Jobs :
    (/\ Oid(j) \in Orders
     /\ pc[j] \in {"return", "throw"}
     /\ CountStatus(published[j], "confirmed") > 0) =>
      /\ db[Oid(j)].status = "confirmed"
      /\ \A i \in 1..Len(published[j]) :
           published[j][i].status = "confirmed" =>
             db[Oid(j)].tx_hash = published[j][i].txHash
      /\ failedWrites[j] = <<>>

\* C18: when a job attempt ends, every status it published for the order has
\* also been stored as the order's persisted status during that attempt.
C18_EveryTransitionRecorded ==
  \A j \in Jobs :
    (Oid(j) \in Orders /\ pc[j] \in {"return", "throw"}) =>
      \A i \in 1..Len(published[j]) : published[j][i].status \in statusWrites[j]

\* C19: when a job attempt hands its failure to the queue, a failed event has
\* been published in that attempt and the order record has status failed with
\* the failure in its error field.
C19_FailureVisibleBeforePropagation ==
  \A j \in Jobs :
    (Oid(j) \in Orders /\ pc[j] = "throw") =>
      /\ CountStatus(published[j], "failed") >= 1
      /\ db[Oid(j)].status = "failed"
      /\ db[Oid(j)].error # Null

\* C20: an order whose job has been delivered to the worker eventually has a
\* terminal persisted status, confirmed or failed.
C20_DeliveredOrderReachesTerminal ==
  \A j \in Jobs :
    (jobState[j] = "active" /\ Oid(j) \in Orders)
      ~> (Oid(j) \in Orders /\ db[Oid(j)].status \in {"confirmed", "failed"})

\* C21: a job is safe to deliver again: no step of any delivery changes the
\* status, the txHash or the executed amount of an order that is persisted as
\* confirmed.
C21_ConfirmedSurvivesRedelivery ==
  [][\A o \in Orders :
       db[o].status = "confirmed" =>
         /\ db'[o].status = "confirmed"
         /\ db'[o].tx_hash = db[o].tx_hash
         /\ db'[o].executed_price = db[o].executed_price]_vars

\* C22: execution has an upper bound: a job attempt that is waiting for
\* executeSwap eventually leaves that step (the order is failed and the worker
\* slot released) even when executeSwap itself never returns.
C22_ExecutionIsBounded ==
  \A j \in Jobs : (pc[j] = "executeSwap") ~> (pc[j] # "executeSwap")

\* C23: for an order with no connection attached, subscribeSocket followed
\* by unsubscribeSocket of the same connection gives back the registry
\* without an entry for the order, having issued SUBSCRIBE and then
\* UNSUBSCRIBE for its channel, and a later subscribeSocket issues SUBSCRIBE
\* again; every step that removes an entry issues UNSUBSCRIBE, every step that
\* creates one issues SUBSCRIBE; once the commands are processed the channel
\* is subscribed for an order that has an entry, and an event published then
\* is handed to the relay.
C23_UnsubscribeTearsDownResubscribeRestores ==
  [][\A o \in RegOrders :
       /\ o \notin DOMAIN subscribers =>
            \A c \in RegConns :
              /\ SubscribeCmds(subscribers, o) = << <<"subscribe", Channel(o)>> >>
              /\ UnsubscribeRegistry(SubscribeRegistry(subscribers, o, c), o, c)
                   = subscribers
              /\ UnsubscribeCmds(SubscribeRegistry(subscribers, o, c), o, c)
                   = << <<"unsubscribe", Channel(o)>> >>
       /\ (o \in DOMAIN subscribers /\ o \notin DOMAIN subscribers') =>
            subCmds' = Append(subCmds, <<"unsubscribe", Channel(o)>>)
       /\ (o \notin DOMAIN subscribers /\ o \in DOMAIN subscribers') =>
            subCmds' = Append(subCmds, <<"subscribe", Channel(o)>>)
       /\ (subCmds' = <<>> /\ o \in DOMAIN subscribers') => Channel(o) \in channels'
       /\ \A j \in Jobs :
            (/\ Len(published'[j]) = Len(published[j]) + 1
             /\ published'[j][Len(published'[j])].orderId = o
             /\ subCmds = <<>>
             /\ o \in DOMAIN subscribers) =>
              inbox' = Append(inbox, <<Channel(o), published'[j][Len(published'[j])]>>)
    ]_vars

\* order o1 was subscribed, torn down and subscribed again; the first event
\* went to c1 only, the second, published after the new subscription, to c2
C23_Witness ==
  /\ subLog = << <<"subscribe", Channel("o1")>>, <<"unsubscribe", Channel("o1")>>,
                <<"subscribe", Channel("o1")>> >>
  /\ DOMAIN subscribers = {"o1"}
  /\ subscribers["o1"] = {"c2"}
  /\ sendThrows = {}
  /\ \A c \in RegConns : conns[c].readyState = "OPEN"
  /\ Len(delivered["c1"]) = 1
  /\ delivered["c1"][1].status = "pending"
  /\ Len(delivered["c2"]) = 1
  /\ delivered["c2"][1].status = "routing"

\* C24: the registry never holds an empty set, and once every issued Redis
\* command has been processed the process is subscribed to the channel of an
\* order exactly when the registry holds an entry for that order.
C24_RegistryMatchesSubscriptions ==
  /\ \A o \in DOMAIN subscribers : subscribers[o] # {}
  /\ subCmds = <<>> =>
       \A o \in RegOrders : Channel(o) \in channels <=> o \in DOMAIN subscribers

\* three commands were processed: o1 was subscribed and torn down, o2 is
\* still held by both connections
C24_Witness ==
  /\ subCmds = <<>>
  /\ Len(subLog) = 3
  /\ <<"unsubscribe", Channel("o1")>> = subLog[3]
  /\ DOMAIN subscribers = {"o2"}
  /\ subscribers["o2"] = RegConns
  /\ channels = {Channel("o2")}

\* C25: when a message for an order is relayed, every OPEN connection
\* registered for the order whose send does not throw receives the payload,
\* whether or not the send to another registered connection throws, and no
\* other connection receives anything.
C25_RelayIsolatesFailedSend ==
  [][(inbox # <<>> /\ inbox' = Tail(inbox)) =>
       LET id == Head(inbox)[1][2]
           message == Head(inbox)[2]
       IN \A c \in DOMAIN delivered :
            IF /\ id \in DOMAIN subscribers
               /\ c \in subscribers[id]
               /\ conns[c].readyState = "OPEN"
               /\ c \notin sendThrows
            THEN delivered'[c] = Append(delivered[c], message)
            ELSE delivered'[c] = delivered[c]
    ]_vars

\* c1 and c2 are both registered for o1 and OPEN, the send to c1 throws, and
\* c2 has received the event
C25_Witness ==
  /\ "o1" \in DOMAIN subscribers
  /\ subscribers["o1"] = RegConns
  /\ \A c \in RegConns : conns[c].readyState = "OPEN"
  /\ sendThrows = {"c1"}
  /\ delivered["c1"] = <<>>
  /\ Len(delivered["c2"]) = 1
  /\ delivered["c2"][1].orderId = "o1"
  /\ inbox = <<>>

\* the step that follows each publish in the processor
StepAfterPublish(p) ==
  CASE p = "pubPending" -> "dbPending"
    [] p = "pubRouting" -> "getBestQuote"
    [] p = "pubBuilding" -> "dbRouting"
    [] p = "pubSubmitted" -> "executeSwap"
    [] p = "pubConfirmed" -> "dbConfirmed"
    [] p = "pubFailed" -> "dbFailed"

PublishSteps ==
  {"pubPending", "pubRouting", "pubBuilding", "pubSubmitted", "pubConfirmed",
   "pubFailed"}

\* C26: a publish for an order that has no local subscriber completes
\* without an error and the attempt goes on to the step that follows the
\* publish.
C26_PublishWithoutSubscribersContinues ==
  [][\A j \in Jobs :
       (/\ pc[j] \in PublishSteps
        /\ Oid(j) \notin DOMAIN subscribers
        /\ pc'[j] # pc[j]) =>
         /\ pc'[j] = StepAfterPublish(pc[j])
         /\ err'[j] = err[j]]_vars

\* C27: an event that another process publishes for an order reaches the
\* relay of this process whenever its registry holds an OPEN connection for
\* the order.
C27_PublishedEventReachesRegistered ==
  [][\A j \in Jobs :
       Len(published'[j]) = Len(published[j]) + 1 =>
         LET ev == published'[j][Len(published'[j])]
         IN RelayTargets(subscribers, conns, ev.orderId) # {} =>
              inbox' = Append(inbox, <<Channel(ev.orderId), ev>>)]_vars

\* C28: no persistence call, in a first attempt, a retry or a redelivery,
\* removes a key that routing_info already holds.
C28_RoutingKeysNeverRemoved ==
  [][\A o \in Orders :
       ~db[o].routing_null =>
         /\ ~db'[o].routing_null
         /\ DOMAIN db[o].routing_info \subseteq DOMAIN db'[o].routing_info]_vars

\* a second attempt has just rewritten the routing info that the first
\* attempt, which ended in a failed write, had stored
C28_Witness ==
  \E j \in Jobs :
    /\ Oid(j) \in Orders
    /\ attemptsMade[j] = 2
    /\ pc[j] = "pubBuilding"
    /\ db[Oid(j)].attempts = 1
    /\ ~db[Oid(j)].routing_null
    /\ db[Oid(j)].routing_info = RoutingOf(quote[j])

\* the statement the processor is about to issue at each persistence step
StmtAt(j) ==
  CASE pc[j] = "dbPending" -> UpdateStmt("pending", NoOpts)
    [] pc[j] = "setRouting" -> RoutingStmt(RoutingOf(quote[j]))
    [] pc[j] = "dbRouting" -> UpdateStmt("routing", NoOpts)
    [] pc[j] = "dbConfirmed" -> UpdateStmt("confirmed", ConfirmedOpts(j))
    [] pc[j] = "dbFailed" -> UpdateStmt("failed", FailedOpts(err[j]))

PersistSteps == {"dbPending", "setRouting", "dbRouting", "dbConfirmed", "dbFailed"}

\* C29: the persistence call a job attempt is about to make leaves the same
\* record when it is applied twice with the same arguments as when it is
\* applied once.
C29_DuplicateCallChangesNothing ==
  \A j \in Jobs :
    (pc[j] \in PersistSteps /\ Oid(j) \in Orders) =>
      ApplyStmt(ApplyStmt(db[Oid(j)], StmtAt(j)), StmtAt(j))
        = ApplyStmt(db[Oid(j)], StmtAt(j))

\* number of cleanup calls in a call log
Cleanups(calls) == Cardinality({i \in DOMAIN calls : calls[i] = "cleanup"})

WasWrapped(calls) == \E i \in DOMAIN calls : calls[i] = "wrapped"

\* C30: an executeSwap call that wrapped native SOL runs the cleanup exactly
\* once, whether it returns or throws; a call that wrapped nothing (the
\* simulated path, a token other than native SOL, a wrap that failed) runs
\* no cleanup; native SOL is wrapped only outside the simulated path.
C30_CleanupOncePerWrap ==
  [][\A j \in Jobs :
       Len(execCalls'[j]) = Len(execCalls[j]) + 1 =>
         /\ WasWrapped(wsolCalls'[j]) => Cleanups(wsolCalls'[j]) = 1
         /\ ~WasWrapped(wsolCalls'[j]) => Cleanups(wsolCalls'[j]) = 0
         /\ (useMock \/ quote[j].dex = "mock" \/ token_in[j] \notin {"SOL", Undefined})
              => wsolCalls'[j] = <<>>
         /\ (~useMock /\ quote[j].dex # "mock" /\ token_in[j] \in {"SOL", Undefined})
              => wsolCalls'[j] # <<>>]_vars

\* a venue swap of native SOL wrapped the SOL, threw, and ran the cleanup once
C30_Witness ==
  \E j \in Jobs :
    /\ token_in[j] = "SOL"
    /\ pc[j] = "pubFailed"
    /\ execCalls[j] = <<"throw">>
    /\ wsolCalls[j] = <<"wrapped", "cleanup">>

\* C36: the processor returns only after executeSwap returned, the
\* confirmed event was published and the status=confirmed write returned (and
\* was applied, when the order has a record), in that attempt; the queue marks a job completed only when the processor
\* returned; an attempt that ends otherwise ends with the processor throwing
\* an error, and the queue then retries or fails the job.
C36_CompletedOnlyAfterConfirmed ==
  [][\A j \in Jobs :
       /\ (pc'[j] = "return" /\ pc[j] # "return") =>
            /\ execCalls'[j] = <<"ok">>
            /\ published'[j] # <<>>
            /\ published'[j][Len(published'[j])].status = "confirmed"
            /\ pc[j] = "dbConfirmed"
            /\ Oid(j) \in Orders =>
                 /\ "confirmed" \in statusWrites'[j]
                 /\ db'[Oid(j)].status = "confirmed"
       /\ (jobState'[j] = "completed" /\ jobState[j] # "completed") =>
            pc[j] = "return"
       /\ (pc'[j] = "throw" /\ pc[j] # "throw") => err'[j] # Null
       /\ (pc[j] = "throw" /\ pc'[j] # "throw") =>
            /\ jobState'[j] \in {"waiting", "failed"}
            /\ attemptsMade'[j] = attemptsMade[j] + 1
    ]_vars

\* a job completed after its swap returned and its record was confirmed
C36_Witness ==
  \E j \in Jobs :
    /\ jobState[j] = "completed"
    /\ Oid(j) \in Orders
    /\ db[Oid(j)].status = "confirmed"
    /\ execCalls[j] = <<"ok">>

\* the columns of a record agree with its status
RowConsistent(row) ==
  /\ row.status = "confirmed" => row.error = Null
  /\ row.status = "failed" => row.error # Null /\ row.tx_hash = Null
  /\ row.status \in {"pending", "routing"} =>
       /\ row.error = Null
       /\ row.tx_hash = Null
       /\ row.executed_price = NoNum

C39_EventsStayWithTheirOrder ==
  [][/\ \A i \in DOMAIN inbox' : inbox'[i][1] = Channel(inbox'[i][2].orderId)
     /\ \A c \in DOMAIN delivered :
          delivered'[c] # delivered[c] =>
            /\ Len(delivered'[c]) = Len(delivered[c]) + 1
            /\ LET ev == delivered'[c][Len(delivered'[c])]
               IN /\ ev.orderId \in DOMAIN subscribers
                  /\ c \in subscribers[ev.orderId]
    ]_vars

\* c1 is registered for o1 only and c2 for o2 only, an event was published
\* for each order, and each connection got the event of its own order only
C39_Witness ==
  /\ DOMAIN subscribers = RegOrders
  /\ subscribers["o1"] = {"c1"}
  /\ subscribers["o2"] = {"c2"}
  /\ subLog = << <<"subscribe", Channel("o1")>>, <<"subscribe", Channel("o2")>> >>
  /\ Len(delivered["c1"]) = 1
  /\ delivered["c1"][1].orderId = "o1"
  /\ Len(delivered["c2"]) = 1
  /\ delivered["c2"][1].orderId = "o2"

\* C35: executeSwap returns successfully at most once for an order: no
\* executeSwap call for an order returns after an earlier call for it has
\* returned.
C35_SwapExecutedAtMostOnce ==
  [][\A j \in Jobs :
       (Len(execCalls'[j]) = Len(execCalls[j]) + 1 /\ res'[j] # NoRes) =>
         ~swapped[j]]_vars

\* a body in which token_in, token_out or amount_in is missing
LacksField(body) ==
  \/ body.token_in = Undefined
  \/ body.token_out = Undefined
  \/ body.amount_in = NoNum

\* C33: for an admission request whose body lacks token_in, token_out or
\* amount_in no order row is ever inserted and no job is ever enqueued, the
\* handler never reaches insertOrder or queue.add, and its answer is 400.
C33_MalformedAdmissionTouchesNothing ==
  \A r \in Jobs :
    LacksField(http[r].body) =>
      /\ OrderOf(r) \notin DOMAIN db
      /\ jobState[r] = "absent"
      /\ http[r].pc \in {"validate", "done"}
      /\ http[r].pc = "done" => http[r].reply = 400

\* a request without amount_in was answered 400: nothing is stored or enqueued
C33_Witness ==
  \E r \in Jobs :
    /\ http[r].body.token_in # Undefined
    /\ http[r].body.token_out # Undefined
    /\ http[r].body.amount_in = NoNum
    /\ http[r].pc = "done"
    /\ http[r].reply = 400
    /\ DOMAIN db = {}
    /\ jobState[r] = "absent"

\* the retry budget of the write at each persistence step, and the steps
\* that follow its success and its failure
AttemptsAt(p) == IF p = "setRouting" THEN RoutingRetryAttempts ELSE UpdateRetryAttempts

StepAfterWrite(p) ==
  CASE p = "dbPending" -> "parseAmount"
    [] p = "setRouting" -> "pubBuilding"
    [] p = "dbRouting" -> "pubSubmitted"
    [] p = "dbConfirmed" -> "return"
    [] p = "dbFailed" -> "throw"

StepAfterGivingUp(p) == IF p = "dbConfirmed" THEN "pubFailed" ELSE "throw"

\* C34: a persistence call issues its write at most 3 times (insertOrder at
\* most 4); each step of it either succeeds and goes on, or fails and issues
\* the write again while the budget lasts, or fails for the last time and
\* raises a persistence error to its caller.
C34_WriteRetriedBeforeSurfacing ==
  [][/\ \A j \in Jobs :
          pc[j] \in PersistSteps =>
            /\ tryIdx[j] < AttemptsAt(pc[j])
            /\ (pc'[j] # pc[j] \/ tryIdx'[j] # tryIdx[j]) =>
                 \/ /\ pc'[j] = StepAfterWrite(pc[j])
                    /\ tryIdx'[j] = 0
                    /\ err'[j] = err[j]
                 \/ /\ pc'[j] = pc[j]
                    /\ tryIdx'[j] = tryIdx[j] + 1
                    /\ tryIdx'[j] < AttemptsAt(pc[j])
                    /\ err'[j] = err[j]
                 \/ /\ tryIdx[j] = AttemptsAt(pc[j]) - 1
                    /\ pc'[j] = StepAfterGivingUp(pc[j])
                    /\ err'[j] = "PersistenceError"
     /\ \A r \in Jobs :
          http[r].pc = "insertOrder" =>
            /\ http[r].tryIdx < 4
            /\ http'[r] # http[r] =>
                 \/ http'[r].pc = "queueAdd" /\ http'[r].reply = Null
                 \/ /\ http'[r].pc = "insertOrder"
                    /\ http'[r].tryIdx = http[r].tryIdx + 1
                    /\ http'[r].tryIdx < 4
                 \/ /\ http[r].tryIdx = 3
                    /\ http'[r].pc = "done"
                    /\ http'[r].reply = 500
    ]_vars

\* the swap returned, the status=confirmed write failed three times, and its
\* error is now being handled by the processor
C34_Witness ==
  \E j \in Jobs :
    /\ pc[j] = "pubFailed"
    /\ err[j] = "PersistenceError"
    /\ execCalls[j] = <<"ok">>
    /\ http[j].reply = 200

\* connection c has presented, at connect or in an auth or subscribe message,
\* the token issued for order o (and, in a subscribe message, named o)
Presented(c, o) ==
  \E i \in DOMAIN wsLog[c] :
    LET m == wsLog[c][i].msg
    IN /\ m.action \in {"connect", "auth", "subscribe"}
       /\ m.token = [orderId |-> o, sig |-> <<"hmac", o>>, parts |-> 2]
       /\ m.action = "subscribe" => m.orderId = o

\* C31: a connection is in the registry for an order, is acknowledged as
\* subscribed to it, or has been sent one of its lifecycle events, only if it
\* has presented the token of that order.
C31_RegisteredOnlyWithValidToken ==
  \A c \in DOMAIN conns :
    /\ \A o \in DOMAIN subscribers : c \in subscribers[o] => Presented(c, o)
    /\ \A i \in DOMAIN delivered[c] : Presented(c, delivered[c][i].orderId)
    /\ \A i \in DOMAIN wsLog[c] : \A k \in DOMAIN wsLog[c][i].replies :
         \A o \in RegOrders :
           wsLog[c][i].replies[k] = Subscribed(o) => Presented(c, o)

\* a client connected with a token signed for another order and sent a
\* subscribe message naming o2 with the token of o1: two events were
\* published since, the registry is empty and the client was sent nothing
C31_Witness ==
  \E c \in DOMAIN conns :
    /\ Len(wsLog[c]) = 2
    /\ wsLog[c][1].msg.token = [orderId |-> "o1", sig |-> Hmac("o2"), parts |-> 2]
    /\ wsLog[c][2].msg = [action |-> "subscribe", token |-> CreateWsToken("o1"),
                           orderId |-> "o2"]
    /\ wsLog[c][2].replies = << [error |-> "invalid_token_for_order"] >>
    /\ tasks = <<>>
    /\ DOMAIN subscribers = {}
    /\ delivered[c] = <<>>
    /\ \E j \in Jobs : Len(published[j]) = 2

\* no handler of connection c is still waiting for the import
Settled(c) == \A k \in DOMAIN tasks : tasks[k].conn # c

\* the token of a message is the one issued for the order the message is
\* about (for auth: for the order the token names)
ValidFor(m) ==
  \E o \in RegOrders :
    /\ m.token = [orderId |-> o, sig |-> <<"hmac", o>>, parts |-> 2]
    /\ m.action = "subscribe" => m.orderId = o

\* C32: every auth or subscribe message received on an open connection is
\* answered with exactly one reply, subscribed with the order id when its
\* token is valid for the order, and the error invalid_token otherwise.
C32_EveryRequestAnsweredOnce ==
  \A c \in DOMAIN conns :
    (conns[c].readyState = "OPEN" /\ Settled(c)) =>
      \A i \in DOMAIN wsLog[c] :
        LET m == wsLog[c][i].msg
        IN m.action \in {"auth", "subscribe"} =>
             /\ Len(wsLog[c][i].replies) = 1
             /\ IF ValidFor(m)
                THEN \E o \in RegOrders : wsLog[c][i].replies[1] = Subscribed(o)
                ELSE wsLog[c][i].replies[1] = [error |-> "invalid_token"]

\* C38: once a connection is closed and its handlers have run, it is a
\* member of no order's connection set.
C38_ClosedConnectionLeavesRegistry ==
  \A c \in DOMAIN conns :
    (conns[c].readyState = "CLOSED" /\ Settled(c)) =>
      \A o \in DOMAIN subscribers : c \notin subscribers[o]

====
